---- MODULE Spec2Model ----
(***************************************************************************)
(* Model of internal/googleauth/service.go: the registry of Google         *)
(* services and the OAuth scopes each one needs.                            *)
(*                                                                         *)
(* A Go string is modelled as the sequence of its bytes (ASCII codes), so  *)
(* that case folding, trimming, quoting, joining and the byte-wise order   *)
(* used by sort.Strings are computed rather than assumed.  The text of     *)
(* every literal is given in the comment next to it.                       *)
(***************************************************************************)
EXTENDS Integers, Sequences, FiniteSets, TLC

VARIABLES
  serviceOrder,          \* package variable serviceOrder (backing array contents)
  serviceInfoByService,  \* package variable serviceInfoByService (the map)
  held,                  \* per concurrent caller: the last call it made and what it was returned
  pc,                    \* position of the single-call run: "call", "done" or "again"
  pending,               \* the call drawn for the single-call run: [op, arg]
  ret,                   \* what that call returned
  again                  \* a second ScopesForServices call on a rearrangement of the same identifiers

vars == <<serviceOrder, serviceInfoByService, held, pc, pending, ret, again>>

-----------------------------------------------------------------------------
(* Bounds of the model.                                                    *)

\* longest sequence of service identifiers passed to ScopesForServices / ScopesForManage
MaxLen == 2
\* most whitespace bytes put on each side of a raw input of ParseService
MaxPad == 1
\* most views passed to ServicesMarkdown in the single-call run
MaxViews == 2
\* most overwrites outstanding on the results the concurrent callers hold
MaxWrites == 1

-----------------------------------------------------------------------------
(* Service identifiers and fixed scopes.                                   *)

\* "gmail"
ServiceGmail == <<103, 109, 97, 105, 108>>
\* "calendar"
ServiceCalendar == <<99, 97, 108, 101, 110, 100, 97, 114>>
\* "drive"
ServiceDrive == <<100, 114, 105, 118, 101>>
\* "docs"
ServiceDocs == <<100, 111, 99, 115>>
\* "contacts"
ServiceContacts == <<99, 111, 110, 116, 97, 99, 116, 115>>
\* "tasks"
ServiceTasks == <<116, 97, 115, 107, 115>>
\* "people"
ServicePeople == <<112, 101, 111, 112, 108, 101>>
\* "sheets"
ServiceSheets == <<115, 104, 101, 101, 116, 115>>
\* "groups"
ServiceGroups == <<103, 114, 111, 117, 112, 115>>
\* "keep"
ServiceKeep == <<107, 101, 101, 112>>

\* "openid"
scopeOpenID == <<111, 112, 101, 110, 105, 100>>
\* "email"
scopeEmail == <<101, 109, 97, 105, 108>>
\* "https://www.googleapis.com/auth/userinfo.email"
scopeUserinfoEmail == <<104, 116, 116, 112, 115, 58, 47, 47, 119, 119, 119, 46, 103, 111, 111, 103, 108, 101, 97, 112, 105, 115, 46, 99, 111, 109, 47, 97, 117, 116, 104, 47, 117, 115, 101, 114, 105, 110, 102, 111, 46, 101, 109, 97, 105, 108>>

-----------------------------------------------------------------------------
(* Values: errors and slices.                                              *)

\* the nil error
NilError == [nil |-> TRUE, unknown |-> FALSE, msg |-> <<>>]

\* errors.New("unknown service"); unknown is what errors.Is(err, errUnknownService) answers
errUnknownService == [nil |-> FALSE, unknown |-> TRUE, msg |-> <<117, 110, 107, 110, 111, 119, 110, 32, 115, 101, 114, 118, 105, 99, 101>>]

\* A slice is its backing array.  kind "fresh" is an array allocated by the
\* call that returned it and reachable only through that slice (elems holds
\* its contents); kind "nil" is the nil slice; the other kinds are the
\* registry's own arrays (serviceOrder, or the scopes / apis of service svc),
\* whose contents live in the registry variables.
NilSlice == [kind |-> "nil", svc |-> <<>>, elems |-> <<>>]

\* make, or an append that has to allocate: a new array holding elems
FreshSlice(elems) == [kind |-> "fresh", svc |-> <<>>, elems |-> elems]

\* append([]string(nil), elems...): a copy of elems in a new array, or the
\* nil slice when there is nothing to copy
AppendToNil(elems) == IF Len(elems) = 0 THEN NilSlice ELSE FreshSlice(elems)

\* the registry as one value: what the package-level variables hold
Registry == [serviceOrder |-> serviceOrder, serviceInfoByService |-> serviceInfoByService]

\* reading a slice: the contents of its backing array
Elems(reg, sl) ==
  CASE sl.kind = "serviceOrder" -> reg.serviceOrder
    [] sl.kind = "scopes" -> reg.serviceInfoByService[sl.svc].scopes
    [] sl.kind = "apis" -> reg.serviceInfoByService[sl.svc].apis
    [] OTHER -> sl.elems

Range(f) == {f[i] : i \in DOMAIN f}

-----------------------------------------------------------------------------
(* The registry tables.                                                    *)

\* faulty variant: keep has a record but is left out of the order
InitServiceOrder_keepMissing ==
  << ServiceGmail, ServiceCalendar, ServiceDrive, ServiceDocs, ServiceContacts,
     ServiceTasks, ServiceSheets, ServicePeople, ServiceGroups >>

InitServiceOrder ==
  << ServiceGmail, ServiceCalendar, ServiceDrive, ServiceDocs, ServiceContacts,
     ServiceTasks, ServiceSheets, ServicePeople, ServiceGroups, ServiceKeep >>

InitServiceInfoByService ==
  [ svc \in { ServiceGmail, ServiceCalendar, ServiceDrive, ServiceDocs, ServiceContacts,
              ServiceTasks, ServicePeople, ServiceSheets, ServiceGroups, ServiceKeep } |->
    CASE svc = ServiceGmail ->
           [ scopes |-> << \* "https://mail.google.com/"
                           <<104, 116, 116, 112, 115, 58, 47, 47, 109, 97, 105, 108, 46, 103, 111, 111, 103, 108, 101, 46, 99, 111, 109, 47>>,
                           \* "https://www.googleapis.com/auth/gmail.settings.basic"
                           <<104, 116, 116, 112, 115, 58, 47, 47, 119, 119, 119, 46, 103, 111, 111, 103, 108, 101, 97, 112, 105, 115, 46, 99, 111, 109, 47, 97, 117, 116, 104, 47, 103, 109, 97, 105, 108, 46, 115, 101, 116, 116, 105, 110, 103, 115, 46, 98, 97, 115, 105, 99>> >>,
             user |-> TRUE,
             \* "Gmail API"
             apis |-> << <<71, 109, 97, 105, 108, 32, 65, 80, 73>> >>,
             note |-> <<>> ]
      [] svc = ServiceCalendar ->
           [ \* "https://www.googleapis.com/auth/calendar"
             scopes |-> << <<104, 116, 116, 112, 115, 58, 47, 47, 119, 119, 119, 46, 103, 111, 111, 103, 108, 101, 97, 112, 105, 115, 46, 99, 111, 109, 47, 97, 117, 116, 104, 47, 99, 97, 108, 101, 110, 100, 97, 114>> >>,
             user |-> TRUE,
             \* "Calendar API"
             apis |-> << <<67, 97, 108, 101, 110, 100, 97, 114, 32, 65, 80, 73>> >>,
             note |-> <<>> ]
      [] svc = ServiceDrive ->
           [ \* "https://www.googleapis.com/auth/drive"
             scopes |-> << <<104, 116, 116, 112, 115, 58, 47, 47, 119, 119, 119, 46, 103, 111, 111, 103, 108, 101, 97, 112, 105, 115, 46, 99, 111, 109, 47, 97, 117, 116, 104, 47, 100, 114, 105, 118, 101>> >>,
             user |-> TRUE,
             \* "Drive API"
             apis |-> << <<68, 114, 105, 118, 101, 32, 65, 80, 73>> >>,
             note |-> <<>> ]
      [] svc = ServiceDocs ->
           [ scopes |-> << \* "https://www.googleapis.com/auth/drive"
                           <<104, 116, 116, 112, 115, 58, 47, 47, 119, 119, 119, 46, 103, 111, 111, 103, 108, 101, 97, 112, 105, 115, 46, 99, 111, 109, 47, 97, 117, 116, 104, 47, 100, 114, 105, 118, 101>>,
                           \* "https://www.googleapis.com/auth/documents"
                           <<104, 116, 116, 112, 115, 58, 47, 47, 119, 119, 119, 46, 103, 111, 111, 103, 108, 101, 97, 112, 105, 115, 46, 99, 111, 109, 47, 97, 117, 116, 104, 47, 100, 111, 99, 117, 109, 101, 110, 116, 115>> >>,
             user |-> TRUE,
             \* "Docs API", "Drive API"
             apis |-> << <<68, 111, 99, 115, 32, 65, 80, 73>>, <<68, 114, 105, 118, 101, 32, 65, 80, 73>> >>,
             \* "Export/copy/create via Drive"
             note |-> <<69, 120, 112, 111, 114, 116, 47, 99, 111, 112, 121, 47, 99, 114, 101, 97, 116, 101, 32, 118, 105, 97, 32, 68, 114, 105, 118, 101>> ]
      [] svc = ServiceContacts ->
           [ scopes |-> << \* "https://www.googleapis.com/auth/contacts"
                           <<104, 116, 116, 112, 115, 58, 47, 47, 119, 119, 119, 46, 103, 111, 111, 103, 108, 101, 97, 112, 105, 115, 46, 99, 111, 109, 47, 97, 117, 116, 104, 47, 99, 111, 110, 116, 97, 99, 116, 115>>,
                           \* "https://www.googleapis.com/auth/contacts.other.readonly"
                           <<104, 116, 116, 112, 115, 58, 47, 47, 119, 119, 119, 46, 103, 111, 111, 103, 108, 101, 97, 112, 105, 115, 46, 99, 111, 109, 47, 97, 117, 116, 104, 47, 99, 111, 110, 116, 97, 99, 116, 115, 46, 111, 116, 104, 101, 114, 46, 114, 101, 97, 100, 111, 110, 108, 121>>,
                           \* "https://www.googleapis.com/auth/directory.readonly"
                           <<104, 116, 116, 112, 115, 58, 47, 47, 119, 119, 119, 46, 103, 111, 111, 103, 108, 101, 97, 112, 105, 115, 46, 99, 111, 109, 47, 97, 117, 116, 104, 47, 100, 105, 114, 101, 99, 116, 111, 114, 121, 46, 114, 101, 97, 100, 111, 110, 108, 121>> >>,
             user |-> TRUE,
             \* "People API"
             apis |-> << <<80, 101, 111, 112, 108, 101, 32, 65, 80, 73>> >>,
             \* "Contacts + other contacts + directory"
             note |-> <<67, 111, 110, 116, 97, 99, 116, 115, 32, 43, 32, 111, 116, 104, 101, 114, 32, 99, 111, 110, 116, 97, 99, 116, 115, 32, 43, 32, 100, 105, 114, 101, 99, 116, 111, 114, 121>> ]
      [] svc = ServiceTasks ->
           [ \* "https://www.googleapis.com/auth/tasks"
             scopes |-> << <<104, 116, 116, 112, 115, 58, 47, 47, 119, 119, 119, 46, 103, 111, 111, 103, 108, 101, 97, 112, 105, 115, 46, 99, 111, 109, 47, 97, 117, 116, 104, 47, 116, 97, 115, 107, 115>> >>,
             user |-> TRUE,
             \* "Tasks API"
             apis |-> << <<84, 97, 115, 107, 115, 32, 65, 80, 73>> >>,
             note |-> <<>> ]
      [] svc = ServicePeople ->
           [ \* "profile"
             scopes |-> << <<112, 114, 111, 102, 105, 108, 101>> >>,
             user |-> TRUE,
             \* "People API"
             apis |-> << <<80, 101, 111, 112, 108, 101, 32, 65, 80, 73>> >>,
             \* "OIDC profile scope"
             note |-> <<79, 73, 68, 67, 32, 112, 114, 111, 102, 105, 108, 101, 32, 115, 99, 111, 112, 101>> ]
      [] svc = ServiceSheets ->
           [ \* "https://www.googleapis.com/auth/spreadsheets"
             scopes |-> << <<104, 116, 116, 112, 115, 58, 47, 47, 119, 119, 119, 46, 103, 111, 111, 103, 108, 101, 97, 112, 105, 115, 46, 99, 111, 109, 47, 97, 117, 116, 104, 47, 115, 112, 114, 101, 97, 100, 115, 104, 101, 101, 116, 115>> >>,
             user |-> TRUE,
             \* "Sheets API", "Drive API"
             apis |-> << <<83, 104, 101, 101, 116, 115, 32, 65, 80, 73>>, <<68, 114, 105, 118, 101, 32, 65, 80, 73>> >>,
             \* "Export via Drive"
             note |-> <<69, 120, 112, 111, 114, 116, 32, 118, 105, 97, 32, 68, 114, 105, 118, 101>> ]
      [] svc = ServiceGroups ->
           [ \* "https://www.googleapis.com/auth/cloud-identity.groups.readonly"
             scopes |-> << <<104, 116, 116, 112, 115, 58, 47, 47, 119, 119, 119, 46, 103, 111, 111, 103, 108, 101, 97, 112, 105, 115, 46, 99, 111, 109, 47, 97, 117, 116, 104, 47, 99, 108, 111, 117, 100, 45, 105, 100, 101, 110, 116, 105, 116, 121, 46, 103, 114, 111, 117, 112, 115, 46, 114, 101, 97, 100, 111, 110, 108, 121>> >>,
             user |-> FALSE,
             \* "Cloud Identity API"
             apis |-> << <<67, 108, 111, 117, 100, 32, 73, 100, 101, 110, 116, 105, 116, 121, 32, 65, 80, 73>> >>,
             \* "Workspace only"
             note |-> <<87, 111, 114, 107, 115, 112, 97, 99, 101, 32, 111, 110, 108, 121>> ]
      [] svc = ServiceKeep ->
           [ \* "https://www.googleapis.com/auth/keep"
             scopes |-> << <<104, 116, 116, 112, 115, 58, 47, 47, 119, 119, 119, 46, 103, 111, 111, 103, 108, 101, 97, 112, 105, 115, 46, 99, 111, 109, 47, 97, 117, 116, 104, 47, 107, 101, 101, 112>> >>,
             user |-> FALSE,
             \* "Keep API"
             apis |-> << <<75, 101, 101, 112, 32, 65, 80, 73>> >>,
             \* "Workspace only; service account"
             note |-> <<87, 111, 114, 107, 115, 112, 97, 99, 101, 32, 111, 110, 108, 121, 59, 32, 115, 101, 114, 118, 105, 99, 101, 32, 97, 99, 99, 111, 117, 110, 116>> ] ]

InitialRegistry ==
  [serviceOrder |-> InitServiceOrder, serviceInfoByService |-> InitServiceInfoByService]

-----------------------------------------------------------------------------
(* The library functions the code calls, on byte strings.                  *)

Max(S) == CHOOSE m \in S : \A x \in S : x <= m
Min(S) == CHOOSE m \in S : \A x \in S : m <= x

\* strings.ToLower on ASCII: 'A'..'Z' (65..90) become 'a'..'z'
ToLower(s) == [i \in 1..Len(s) |-> IF s[i] \in 65..90 THEN s[i] + 32 ELSE s[i]]

\* unicode.IsSpace on ASCII: \t \n \v \f \r and the space
IsSpace(b) == b \in {9, 10, 11, 12, 13, 32}

\* strings.TrimSpace: drop the leading and the trailing white space
TrimSpace(s) ==
  LET keep == {i \in 1..Len(s) : ~IsSpace(s[i])}
  IN  IF keep = {} THEN <<>> ELSE SubSeq(s, Min(keep), Max(keep))

\* strings.Join
RECURSIVE Join(_, _)
Join(elems, sep) ==
  IF Len(elems) = 0 THEN <<>>
  ELSE IF Len(elems) = 1 THEN elems[1]
  ELSE elems[1] \o sep \o Join(Tail(elems), sep)

\* the lower-case hexadecimal digit of d, as a byte
HexDigit(d) == IF d < 10 THEN 48 + d ELSE 87 + d

\* strconv.Quote on one ASCII byte: the double quote and the backslash are
\* escaped with a backslash, printable bytes stand for themselves, the
\* control bytes are written \a \b \f \n \r \t \v or \xNN
QuoteByte(b) ==
  CASE b = 34 \/ b = 92 -> <<92, b>>
    [] b \in 32..126 /\ b # 34 /\ b # 92 -> <<b>>
    [] b = 7 -> <<92, 97>>
    [] b = 8 -> <<92, 98>>
    [] b = 12 -> <<92, 102>>
    [] b = 10 -> <<92, 110>>
    [] b = 13 -> <<92, 114>>
    [] b = 9 -> <<92, 116>>
    [] b = 11 -> <<92, 118>>
    [] OTHER -> <<92, 120, HexDigit(b \div 16), HexDigit(b % 16)>>

RECURSIVE QuoteBody(_)
QuoteBody(s) == IF Len(s) = 0 THEN <<>> ELSE QuoteByte(s[1]) \o QuoteBody(Tail(s))

\* the verb %q of fmt: the string as a double-quoted Go literal
Quote(s) == <<34>> \o QuoteBody(s) \o <<34>>

\* the comparison of sort.Strings: a < b, byte by byte
RECURSIVE LessFrom(_, _, _)
LessFrom(a, b, i) ==
  IF i > Len(a) THEN i <= Len(b)
  ELSE IF i > Len(b) THEN FALSE
  ELSE IF a[i] = b[i] THEN LessFrom(a, b, i + 1)
  ELSE a[i] < b[i]

StringLess(a, b) == LessFrom(a, b, 1)

\* one pass of the insertion sort: x moves left while it is less than its predecessor
Insert(s, x) ==
  LET stop == {i \in 1..Len(s) : ~StringLess(x, s[i])}
      p == IF stop = {} THEN 0 ELSE Max(stop)
  IN  SubSeq(s, 1, p) \o <<x>> \o SubSeq(s, p + 1, Len(s))

\* sort.Strings (an insertion sort at these lengths)
RECURSIVE SortStrings(_)
SortStrings(a) ==
  IF Len(a) <= 1 THEN a
  ELSE Insert(SortStrings(SubSeq(a, 1, Len(a) - 1)), a[Len(a)])

RECURSIVE SetToSeq(_)
SetToSeq(S) ==
  IF S = {} THEN <<>>
  ELSE LET x == CHOOSE x \in S : TRUE IN <<x>> \o SetToSeq(S \ {x})

Reverse(s) == [i \in 1..Len(s) |-> s[Len(s) + 1 - i]]

\* for s := range set: the keys of a map in an order the language leaves
\* open; rev picks between one enumeration and its reverse
MapKeys(set, rev) == IF rev THEN Reverse(SetToSeq(set)) ELSE SetToSeq(set)

\* fmt.Errorf("%w %q (expected %s)", err, s, names)
Errorf(err, s, names) ==
  [ nil |-> FALSE,
    unknown |-> err.unknown,
    \* " (expected " and ")"
    msg |-> err.msg \o <<32>> \o Quote(s) \o <<32, 40, 101, 120, 112, 101, 99, 116, 101, 100, 32>> \o names \o <<41>> ]

-----------------------------------------------------------------------------
(* The functions of service.go.  reg is the registry they read.            *)

\* faulty variant: always joins with ","
serviceNames_commas(services, sep) ==
  Join([i \in 1..Len(services) |-> services[i]], <<44>>)

serviceNames(services, sep) ==
  Join([i \in 1..Len(services) |-> services[i]], sep)

AllServices(reg) == FreshSlice(reg.serviceOrder)

\* faulty variant: lets every service through
UserServiceFilter_always(info) == TRUE

\* the closure UserServices passes: func(info serviceInfo) bool { return info.user }
UserServiceFilter(info) == info.user

\* a func value is modelled by its name; "nil" is the nil func and
\* "UserServiceFilter" the only closure the package passes
filteredServices(reg, include) ==
  FreshSlice(SelectSeq(reg.serviceOrder,
                       LAMBDA svc : /\ svc \in DOMAIN reg.serviceInfoByService
                                    /\ \/ include = "nil"
                                       \/ UserServiceFilter(reg.serviceInfoByService[svc])))

UserServices(reg) == filteredServices(reg, "UserServiceFilter")

\* faulty variant: the error reports the canonical form instead of the input
ParseService_reportsParsed(reg, s) ==
  LET parsed == ToLower(TrimSpace(s))
  IN  IF parsed \in DOMAIN reg.serviceInfoByService
      THEN [val |-> parsed, err |-> NilError]
      ELSE [val |-> <<>>,
            err |-> Errorf(errUnknownService, parsed,
                           serviceNames(Elems(reg, AllServices(reg)), <<124>>))]

\* faulty variant: the input is trimmed but not lower-cased
ParseService_caseSensitive(reg, s) ==
  LET parsed == TrimSpace(s)
  IN  IF parsed \in DOMAIN reg.serviceInfoByService
      THEN [val |-> parsed, err |-> NilError]
      ELSE [val |-> <<>>,
            err |-> Errorf(errUnknownService, s,
                           serviceNames(Elems(reg, AllServices(reg)), <<124>>))]

ParseService(reg, s) ==
  LET parsed == ToLower(TrimSpace(s))
  IN  IF parsed \in DOMAIN reg.serviceInfoByService
      THEN [val |-> parsed, err |-> NilError]
      ELSE [val |-> <<>>,
            \* "|"
            err |-> Errorf(errUnknownService, s,
                           serviceNames(Elems(reg, AllServices(reg)), <<124>>))]

\* faulty variant: returns the registry's own array instead of a copy
Scopes_aliased(reg, service) ==
  IF service \notin DOMAIN reg.serviceInfoByService
  THEN [val |-> NilSlice, err |-> errUnknownService]
  ELSE [val |-> [kind |-> "scopes", svc |-> service, elems |-> <<>>], err |-> NilError]

Scopes(reg, service) ==
  IF service \notin DOMAIN reg.serviceInfoByService
  THEN [val |-> NilSlice, err |-> errUnknownService]
  ELSE [val |-> AppendToNil(reg.serviceInfoByService[service].scopes), err |-> NilError]

ServicesInfo(reg) ==
  LET present == SelectSeq(reg.serviceOrder,
                           LAMBDA svc : svc \in DOMAIN reg.serviceInfoByService)
  IN  FreshSlice([i \in 1..Len(present) |->
        LET info == reg.serviceInfoByService[present[i]]
        IN  [ Service |-> present[i],
              User |-> info.user,
              Scopes |-> AppendToNil(info.scopes),
              APIs |-> AppendToNil(info.apis),
              Note |-> info.note ]])

\* each scope between backquotes (byte 96), joined by "<br>"
markdownScopes(scopes) ==
  IF Len(scopes) = 0 THEN <<>>
  ELSE Join([i \in 1..Len(scopes) |-> <<96>> \o scopes[i] \o <<96>>], <<60, 98, 114, 62>>)

\* the loop of ServicesMarkdown: one row per view, in the order given
RECURSIVE markdownRows(_, _)
markdownRows(reg, infos) ==
  IF Len(infos) = 0 THEN <<>>
  ELSE LET info == infos[1]
           \* "no" / "yes"
           userLabel == IF info.User THEN <<121, 101, 115>> ELSE <<110, 111>>
       IN  \* "| "
           <<124, 32>> \o info.Service
           \* " | "
           \o <<32, 124, 32>> \o userLabel
           \* ", "
           \o <<32, 124, 32>> \o Join(Elems(reg, info.APIs), <<44, 32>>)
           \o <<32, 124, 32>> \o markdownScopes(Elems(reg, info.Scopes))
           \o <<32, 124, 32>> \o info.Note
           \* " |\n"
           \o <<32, 124, 10>>
           \o markdownRows(reg, Tail(infos))

\* faulty variant: a view that occurred earlier in the input gets no row
ServicesMarkdown_dedup(reg, infos) ==
  LET first == {i \in 1..Len(infos) : \A j \in 1..(i - 1) : infos[j] # infos[i]}
      kept == [k \in 1..Cardinality(first) |->
                 infos[CHOOSE i \in first : Cardinality({j \in first : j < i}) = k - 1]]
  IN  IF Len(infos) = 0 THEN <<>>
      ELSE <<124, 32, 83, 101, 114, 118, 105, 99, 101, 32, 124, 32, 85, 115, 101, 114, 32, 124, 32, 65, 80, 73, 115, 32, 124, 32, 83, 99, 111, 112, 101, 115, 32, 124, 32, 78, 111, 116, 101, 115, 32, 124, 10>>
           \o <<124, 32, 45, 45, 45, 32, 124, 32, 45, 45, 45, 32, 124, 32, 45, 45, 45, 32, 124, 32, 45, 45, 45, 32, 124, 32, 45, 45, 45, 32, 124, 10>>
           \o markdownRows(reg, kept)

ServicesMarkdown(reg, infos) ==
  IF Len(infos) = 0 THEN <<>>
  ELSE \* "| Service | User | APIs | Scopes | Notes |\n"
       <<124, 32, 83, 101, 114, 118, 105, 99, 101, 32, 124, 32, 85, 115, 101, 114, 32, 124, 32, 65, 80, 73, 115, 32, 124, 32, 83, 99, 111, 112, 101, 115, 32, 124, 32, 78, 111, 116, 101, 115, 32, 124, 10>>
       \* "| --- | --- | --- | --- | --- |\n"
       \o <<124, 32, 45, 45, 45, 32, 124, 32, 45, 45, 45, 32, 124, 32, 45, 45, 45, 32, 124, 32, 45, 45, 45, 32, 124, 32, 45, 45, 45, 32, 124, 10>>
       \o markdownRows(reg, infos)

\* faulty variant: the keys are returned in the order of the map, unsorted
ScopesForServices_unsorted(reg, services, rev) ==
  LET bad == {i \in 1..Len(services) : ~Scopes(reg, services[i]).err.nil}
  IN  IF bad # {}
      THEN [val |-> NilSlice, err |-> Scopes(reg, services[Min(bad)]).err]
      ELSE LET set == UNION {Range(Elems(reg, Scopes(reg, services[i]).val)) :
                               i \in 1..Len(services)}
           IN  [val |-> FreshSlice(MapKeys(set, rev)), err |-> NilError]

\* faulty variant: on an error, returns the scopes gathered before it
ScopesForServices_partial(reg, services, rev) ==
  LET bad == {i \in 1..Len(services) : ~Scopes(reg, services[i]).err.nil}
      upto == IF bad = {} THEN Len(services) ELSE Min(bad) - 1
      set == UNION {Range(Elems(reg, Scopes(reg, services[i]).val)) : i \in 1..upto}
  IN  [val |-> FreshSlice(SortStrings(MapKeys(set, rev))),
       err |-> IF bad # {} THEN Scopes(reg, services[Min(bad)]).err ELSE NilError]

ScopesForServices(reg, services, rev) ==
  LET bad == {i \in 1..Len(services) : ~Scopes(reg, services[i]).err.nil}
  IN  IF bad # {}
      THEN [val |-> NilSlice, err |-> Scopes(reg, services[Min(bad)]).err]
      ELSE LET set == UNION {Range(Elems(reg, Scopes(reg, services[i]).val)) :
                               i \in 1..Len(services)}
           IN  [val |-> FreshSlice(SortStrings(MapKeys(set, rev))), err |-> NilError]

\* faulty variant: the extras are appended, without the set and the sort
mergeScopes_appended(scopes, extras, rev) == FreshSlice(scopes \o extras)

mergeScopes(scopes, extras, rev) ==
  LET set == {s \in Range(scopes) : s # <<>>} \cup {s \in Range(extras) : s # <<>>}
  IN  FreshSlice(SortStrings(MapKeys(set, rev)))

ScopesForManage(reg, services, rev, revMerge) ==
  LET r == ScopesForServices(reg, services, rev)
  IN  IF ~r.err.nil
      THEN [val |-> NilSlice, err |-> r.err]
      ELSE [val |-> mergeScopes(Elems(reg, r.val),
                                <<scopeOpenID, scopeEmail, scopeUserinfoEmail>>, revMerge),
            err |-> NilError]

\* ","
UserServiceCSV(reg) == serviceNames(Elems(reg, UserServices(reg)), <<44>>)

-----------------------------------------------------------------------------
(* Inputs of the single-call run.                                          *)

\* all sequences over S of length at most n
SeqsUpTo(S, n) == UNION {[1..k -> S] : k \in 0..n}

\* identifiers that are not registered: "nope", and "GMAIL" passed as a
\* Service without going through ParseService
UnknownIds == { <<110, 111, 112, 101>>, <<71, 77, 65, 73, 76>> }

Ids == Range(InitServiceOrder) \cup UnknownIds

\* words that are not the name of a service in any letter case:
\* nope, the empty word, g mail, keeps, gmai, and gmail between double quotes
OtherWords == { <<110, 111, 112, 101>>, <<>>, <<103, 32, 109, 97, 105, 108>>, <<107, 101, 101, 112, 115>>, <<103, 109, 97, 105>>, <<34>> \o <<103, 109, 97, 105, 108>> \o <<34>> }

ToUpper(s) == [i \in 1..Len(s) |-> IF s[i] \in 97..122 THEN s[i] - 32 ELSE s[i]]

\* w itself, w in capitals, and w with the case of one letter changed
CaseVariants(w) ==
  {w, ToUpper(w)} \cup
  {[w EXCEPT ![i] = IF w[i] \in 97..122 THEN w[i] - 32 ELSE w[i]] : i \in 1..Len(w)}

\* runs of spaces and tabs
Pads == SeqsUpTo({32, 9}, MaxPad)

RawInputs ==
  {l \o v \o r : l \in Pads, r \in Pads,
                 v \in UNION {CaseVariants(w) : w \in Range(InitServiceOrder) \cup OtherWords}}

\* a view no service has: "x", not for users, nil Scopes and APIs, no note
BlankView ==
  [Service |-> <<120>>, User |-> FALSE, Scopes |-> NilSlice, APIs |-> NilSlice, Note |-> <<>>]

Views ==
  Range(ServicesInfo(InitialRegistry).elems) \cup {BlankView}

-----------------------------------------------------------------------------
(* The single-call run: one call is drawn, applied to the registry, and    *)
(* its result kept.                                                        *)

NoCall == [op |-> "none", arg |-> <<>>, val |-> <<>>, err |-> NilError, dirty |-> 0]

Callers == {1, 2}

InitRegistry ==
  /\ serviceOrder = InitServiceOrder
  /\ serviceInfoByService = InitServiceInfoByService

InitFn ==
  /\ InitRegistry
  /\ held = [c \in Callers |-> NoCall]
  /\ pc = "call"
  /\ ret = [val |-> <<>>, err |-> NilError]
  /\ again = [arg |-> <<>>, val |-> <<>>, err |-> NilError]
  /\ \/ \E r \in RawInputs : pending = [op |-> "ParseService", arg |-> r]
     \/ \E s \in Ids : pending = [op |-> "Scopes", arg |-> s]
     \/ \E x \in SeqsUpTo(Ids, MaxLen) :
          \E op \in {"ScopesForServices", "ScopesForManage"} : pending = [op |-> op, arg |-> x]
     \/ \E v \in SeqsUpTo(Views, MaxViews) : pending = [op |-> "ServicesMarkdown", arg |-> v]
     \/ \E op \in {"AllServices", "UserServices", "UserServiceCSV", "ServicesInfo"} :
          pending = [op |-> op, arg |-> <<>>]

Return(r) ==
  /\ ret' = r
  /\ pc' = "done"
  /\ UNCHANGED <<serviceOrder, serviceInfoByService, held, pending, again>>

ApplyParseService ==
  /\ pc = "call" /\ pending.op = "ParseService"
  /\ Return(ParseService(Registry, pending.arg))

ApplyAllServices ==
  /\ pc = "call" /\ pending.op = "AllServices"
  /\ Return([val |-> AllServices(Registry), err |-> NilError])

ApplyUserServices ==
  /\ pc = "call" /\ pending.op = "UserServices"
  /\ Return([val |-> UserServices(Registry), err |-> NilError])

ApplyUserServiceCSV ==
  /\ pc = "call" /\ pending.op = "UserServiceCSV"
  /\ Return([val |-> UserServiceCSV(Registry), err |-> NilError])

ApplyScopes ==
  /\ pc = "call" /\ pending.op = "Scopes"
  /\ Return(Scopes(Registry, pending.arg))

ApplyServicesInfo ==
  /\ pc = "call" /\ pending.op = "ServicesInfo"
  /\ Return([val |-> ServicesInfo(Registry), err |-> NilError])

ApplyServicesMarkdown ==
  /\ pc = "call" /\ pending.op = "ServicesMarkdown"
  /\ Return([val |-> ServicesMarkdown(Registry, pending.arg), err |-> NilError])

ApplyScopesForServices ==
  /\ pc = "call" /\ pending.op = "ScopesForServices"
  /\ \E rev \in BOOLEAN : Return(ScopesForServices(Registry, pending.arg, rev))

ApplyScopesForManage ==
  /\ pc = "call" /\ pending.op = "ScopesForManage"
  /\ \E rev \in BOOLEAN, revMerge \in BOOLEAN :
       Return(ScopesForManage(Registry, pending.arg, rev, revMerge))

\* a second call of ScopesForServices, on some sequence made of the same
\* identifiers as the first (another order, other repetitions)
ApplyScopesForServicesAgain ==
  /\ pc = "done" /\ pending.op = "ScopesForServices"
  /\ \E y \in SeqsUpTo(Range(pending.arg), MaxLen + 1) :
       /\ Range(y) = Range(pending.arg)
       /\ \E rev \in BOOLEAN :
            LET r == ScopesForServices(Registry, y, rev)
            IN  again' = [arg |-> y, val |-> r.val, err |-> r.err]
  /\ pc' = "again"
  /\ UNCHANGED <<serviceOrder, serviceInfoByService, held, pending, ret>>

NextFn ==
  \/ ApplyParseService
  \/ ApplyAllServices
  \/ ApplyUserServices
  \/ ApplyUserServiceCSV
  \/ ApplyScopes
  \/ ApplyServicesInfo
  \/ ApplyServicesMarkdown
  \/ ApplyScopesForServices
  \/ ApplyScopesForManage
  \/ ApplyScopesForServicesAgain

SpecFn == InitFn /\ [][NextFn]_vars

-----------------------------------------------------------------------------
(* Concurrent callers.  Each caller calls the functions of the package in  *)
(* any order and overwrites elements of the slices it was returned; the    *)
(* calls of different callers interleave.  A call only reads the registry  *)
(* and builds its result in memory of its own, so it is one step.          *)

\* the sequences the callers pass to ScopesForServices and ScopesForManage
CallerSeqs ==
  { <<ServiceTasks, ServicePeople>>, <<ServiceKeep, <<110, 111, 112, 101>>>> }

\* the identifiers the callers pass to Scopes
CallerIds == { ServiceDocs, <<110, 111, 112, 101>> }

\* what a caller writes over a string element: "x"
Junk == <<120>>

Init ==
  /\ InitRegistry
  /\ held = [c \in Callers |-> NoCall]
  /\ pc = "idle"
  /\ pending = [op |-> "none", arg |-> <<>>]
  /\ ret = [val |-> <<>>, err |-> NilError]
  /\ again = [arg |-> <<>>, val |-> <<>>, err |-> NilError]

\* caller c keeps the result of its call; what it held before is dropped.
\* dirty counts the overwrites the caller has made on what it holds.
Kept(c, op, arg, val, err, dirty) ==
  /\ held' = [held EXCEPT ![c] =
                [op |-> op, arg |-> arg, val |-> val, err |-> err, dirty |-> dirty]]
  /\ UNCHANGED <<serviceOrder, serviceInfoByService, pc, pending, ret, again>>

Keep(c, op, arg, val, err) == Kept(c, op, arg, val, err, 0)
  /\ UNCHANGED <<serviceOrder, serviceInfoByService, pc, pending, ret, again>>

CallAllServices(c) == Keep(c, "AllServices", <<>>, AllServices(Registry), NilError)

CallUserServices(c) == Keep(c, "UserServices", <<>>, UserServices(Registry), NilError)

CallScopes(c) ==
  \E s \in CallerIds :
    LET r == Scopes(Registry, s) IN Keep(c, "Scopes", s, r.val, r.err)

CallScopesForServices(c) ==
  \E x \in CallerSeqs, rev \in BOOLEAN :
    LET r == ScopesForServices(Registry, x, rev) IN Keep(c, "ScopesForServices", x, r.val, r.err)

CallScopesForManage(c) ==
  \E x \in CallerSeqs, rev \in BOOLEAN, revMerge \in BOOLEAN :
    LET r == ScopesForManage(Registry, x, rev, revMerge)
    IN  Keep(c, "ScopesForManage", x, r.val, r.err)

CallServicesInfo(c) == Keep(c, "ServicesInfo", <<>>, ServicesInfo(Registry), NilError)

\* the caller renders the views it holds, as it has left them (its
\* overwrites stay outstanding: they are in the views it passes)
CallServicesMarkdown(c) ==
  /\ held[c].op = "ServicesInfo"
  /\ LET infos == Elems(Registry, held[c].val)
     IN  Kept(c, "ServicesMarkdown", infos, ServicesMarkdown(Registry, infos), NilError,
              held[c].dirty)

\* the effect of sl[i] = v: on the slice itself when its array is its own,
\* on the registry when its array is one of the registry's
Store(sl, i, v) ==
  [ slice |-> IF sl.kind = "fresh" THEN [sl EXCEPT !.elems[i] = v] ELSE sl,
    serviceOrder |->
      IF sl.kind = "serviceOrder" THEN [serviceOrder EXCEPT ![i] = v] ELSE serviceOrder,
    serviceInfoByService |->
      IF sl.kind = "scopes" THEN [serviceInfoByService EXCEPT ![sl.svc].scopes[i] = v]
      ELSE IF sl.kind = "apis" THEN [serviceInfoByService EXCEPT ![sl.svc].apis[i] = v]
      ELSE serviceInfoByService ]

Outstanding == held[1].dirty + held[2].dirty

SliceOps ==
  {"AllServices", "UserServices", "Scopes", "ScopesForServices", "ScopesForManage", "ServicesInfo"}

\* caller c overwrites one element of the slice it was returned
OverwriteElement(c) ==
  /\ Outstanding < MaxWrites
  /\ held[c].op \in SliceOps
  /\ \E i \in 1..Len(Elems(Registry, held[c].val)) :
       LET v == IF held[c].op = "ServicesInfo" THEN BlankView ELSE Junk
           w == Store(held[c].val, i, v)
       IN  /\ held' = [held EXCEPT ![c].val = w.slice, ![c].dirty = @ + 1]
           /\ serviceOrder' = w.serviceOrder
           /\ serviceInfoByService' = w.serviceInfoByService
  /\ UNCHANGED <<pc, pending, ret, again>>

\* caller c overwrites one element of the Scopes or the APIs of a view it was returned
OverwriteViewField(c) ==
  /\ Outstanding < MaxWrites
  /\ held[c].op = "ServicesInfo"
  /\ held[c].val.kind = "fresh"
  /\ \E j \in 1..Len(held[c].val.elems), field \in {"Scopes", "APIs"} :
       LET view == held[c].val.elems[j]
           sl == IF field = "Scopes" THEN view.Scopes ELSE view.APIs
       IN  \E i \in 1..Len(Elems(Registry, sl)) :
             LET w == Store(sl, i, Junk)
                 view2 == IF field = "Scopes" THEN [view EXCEPT !.Scopes = w.slice]
                          ELSE [view EXCEPT !.APIs = w.slice]
             IN  /\ held' = [held EXCEPT ![c].val.elems[j] = view2, ![c].dirty = @ + 1]
                 /\ serviceOrder' = w.serviceOrder
                 /\ serviceInfoByService' = w.serviceInfoByService
  /\ UNCHANGED <<pc, pending, ret, again>>

Next ==
  \E c \in Callers :
    \/ CallAllServices(c)
    \/ CallUserServices(c)
    \/ CallScopes(c)
    \/ CallScopesForServices(c)
    \/ CallScopesForManage(c)
    \/ CallServicesInfo(c)
    \/ CallServicesMarkdown(c)
    \/ OverwriteElement(c)
    \/ OverwriteViewField(c)

Spec == Init /\ [][Next]_vars

-----------------------------------------------------------------------------
(* Vocabulary of the properties, stated without the functions above.       *)

\* a < b in lexicographic (byte-wise) order: they agree on the first k
\* bytes, and then a ends before b does or a has the smaller byte
LexLess(a, b) ==
  \E k \in 0..(IF Len(a) < Len(b) THEN Len(a) ELSE Len(b)) :
    /\ \A i \in 1..k : a[i] = b[i]
    /\ \/ k = Len(a) /\ k < Len(b)
       \/ k < Len(a) /\ k < Len(b) /\ a[k + 1] < b[k + 1]

StrictlyAscending(seq) == \A i \in 1..(Len(seq) - 1) : LexLess(seq[i], seq[i + 1])

Contains(hay, needle) ==
  \E i \in 0..(Len(hay) - Len(needle)) : SubSeq(hay, i + 1, i + Len(needle)) = needle

HasPrefix(s, p) == Len(p) <= Len(s) /\ SubSeq(s, 1, Len(p)) = p

HasSuffix(s, p) == Len(p) <= Len(s) /\ SubSeq(s, Len(s) - Len(p) + 1, Len(s)) = p

\* the identifiers the registry was built with
Registered == DOMAIN InitServiceInfoByService

\* the scopes the table declares for the identifiers of x
DeclaredScopes(x) == UNION {Range(InitServiceInfoByService[x[i]].scopes) : i \in 1..Len(x)}

\* the three identity scopes, spelled out
IdentityScopes ==
  { <<111, 112, 101, 110, 105, 100>>, <<101, 109, 97, 105, 108>>, <<104, 116, 116, 112, 115, 58, 47, 47, 119, 119, 119, 46, 103, 111, 111, 103, 108, 101, 97, 112, 105, 115, 46, 99, 111, 109, 47, 97, 117, 116, 104, 47, 117, 115, 101, 114, 105, 110, 102, 111, 46, 101, 109, 97, 105, 108>> }

Returned == pc \in {"done", "again"}

\* r is the identifier s (in lower case) with any letters in capitals and
\* any white space (tab, line feed, vertical tab, form feed, carriage
\* return, space) around it
IsVariantOf(r, s) ==
  \E i \in 0..Len(r) :
    /\ i + Len(s) <= Len(r)
    /\ \A k \in 1..i : r[k] \in {9, 10, 11, 12, 13, 32}
    /\ \A k \in (i + Len(s) + 1)..Len(r) : r[k] \in {9, 10, 11, 12, 13, 32}
    /\ \A k \in 1..Len(s) : r[i + k] = s[k] \/ (r[i + k] \in 65..90 /\ r[i + k] + 32 = s[k])

\* r as it reads inside a Go string literal, for the bytes of the raw
\* inputs: a tab is written backslash-t, a double quote backslash-quote,
\* letters and spaces as themselves
RECURSIVE GoEscaped(_)
GoEscaped(r) ==
  IF Len(r) = 0 THEN <<>>
  ELSE (IF r[1] = 9 THEN <<92, 116>> ELSE IF r[1] = 34 THEN <<92, 34>> ELSE <<r[1]>>)
       \o GoEscaped(Tail(r))

\* "gmail|calendar|drive|docs|contacts|tasks|sheets|people|groups|keep"
ValidList == <<103, 109, 97, 105, 108, 124, 99, 97, 108, 101, 110, 100, 97, 114, 124, 100, 114, 105, 118, 101, 124, 100, 111, 99, 115, 124, 99, 111, 110, 116, 97, 99, 116, 115, 124, 116, 97, 115, 107, 115, 124, 115, 104, 101, 101, 116, 115, 124, 112, 101, 111, 112, 108, 101, 124, 103, 114, 111, 117, 112, 115, 124, 107, 101, 101, 112>>

\* the lines of a text: the pieces ended by a line feed, and what follows
\* the last line feed if anything does
Lines(text) ==
  LET nl == {i \in 1..Len(text) : text[i] = 10}
      cut == [k \in 1..Cardinality(nl) |->
                CHOOSE p \in nl : Cardinality({q \in nl : q < p}) = k - 1]
      n == Cardinality(nl)
      ended == [k \in 1..n |-> SubSeq(text, (IF k = 1 THEN 1 ELSE cut[k - 1] + 1), cut[k] - 1)]
  IN  IF n = 0 THEN (IF Len(text) = 0 THEN <<>> ELSE <<text>>)
      ELSE IF cut[n] = Len(text) THEN ended
      ELSE Append(ended, SubSeq(text, cut[n] + 1, Len(text)))

-----------------------------------------------------------------------------
(* Properties of the single-call run (SpecFn).                             *)

\* C1: ScopesForServices on registered identifiers succeeds and returns a
\* strictly ascending sequence whose elements are exactly the scopes
\* declared for those identifiers; a second call on any rearrangement of
\* the same identifiers (other order, other repetitions) returns the same
\* sequence.
C1_UnionSortedWhateverTheOrder ==
  (pending.op = "ScopesForServices" /\ Returned /\ Range(pending.arg) \subseteq Registered) =>
    /\ ret.err.nil
    /\ ret.val.kind = "fresh"
    /\ StrictlyAscending(ret.val.elems)
    /\ Range(ret.val.elems) = DeclaredScopes(pending.arg)
    /\ pc = "again" => (again.err.nil /\ again.val = ret.val)

\* docs and drive (which share the drive scope) resolved, then resolved
\* again as drive, docs, drive
C1_Witness ==
  /\ pc = "again"
  /\ pending.arg = <<ServiceDocs, ServiceDrive>>
  /\ again.arg = <<ServiceDrive, ServiceDocs, ServiceDrive>>
  /\ Len(ret.val.elems) = 2

\* C2: ScopesForManage on registered identifiers (none included) succeeds
\* and returns a strictly ascending sequence that holds every scope of
\* ScopesForServices on the same identifiers and, besides those, exactly
\* openid, email and the userinfo.email scope; it never holds the empty
\* string.
C2_ManageAddsIdentityScopes ==
  (pending.op = "ScopesForManage" /\ Returned /\ Range(pending.arg) \subseteq Registered) =>
    LET plain == Range(ScopesForServices(InitialRegistry, pending.arg, FALSE).val.elems)
        got == Range(ret.val.elems)
    IN  /\ ret.err.nil
        /\ ret.val.kind = "fresh"
        /\ StrictlyAscending(ret.val.elems)
        /\ plain \subseteq got
        /\ plain = DeclaredScopes(pending.arg)
        /\ got \ plain = IdentityScopes
        /\ <<>> \notin got

\* two services sharing a scope, managed: two scopes and the three identity scopes
C2_Witness ==
  /\ pc = "done"
  /\ pending.op = "ScopesForManage"
  /\ pending.arg = <<ServiceDocs, ServiceDrive>>
  /\ Len(ret.val.elems) = 5

\* the identifiers of a call that are not registered
Offending ==
  IF pending.op \in {"ScopesForServices", "ScopesForManage"}
  THEN {pending.arg[i] : i \in 1..Len(pending.arg)} \ Registered
  ELSE {pending.arg}

ErrorOps == {"ParseService", "Scopes", "ScopesForServices", "ScopesForManage"}

\* C3 as stated: every unknown-service error, of ParseService, Scopes,
\* ScopesForServices and ScopesForManage alike, names the identifier that
\* was not registered.
C3_EveryErrorNamesTheInput ==
  (pending.op \in ErrorOps /\ Returned /\ ~ret.err.nil) =>
    /\ ret.err.unknown
    /\ \E id \in Offending : Contains(ret.err.msg, id)

\* C3 as the code has it: the error of ParseService names the input it was
\* given (as a quoted literal); the error of Scopes, ScopesForServices and
\* ScopesForManage is the bare errUnknownService, whose message is
\* "unknown service" and names no identifier.
C3_OnlyParseNamesTheInput ==
  (pending.op \in ErrorOps /\ Returned /\ ~ret.err.nil) =>
    /\ ret.err.unknown
    /\ pending.op = "ParseService" =>
         Contains(ret.err.msg, <<34>> \o GoEscaped(pending.arg) \o <<34>>)
    /\ pending.op # "ParseService" =>
         \* "unknown service"
         /\ ret.err.msg = <<117, 110, 107, 110, 111, 119, 110, 32, 115, 101, 114, 118, 105, 99, 101>>
         /\ \A id \in Offending : ~Contains(ret.err.msg, id)

\* ScopesForServices fails on "nope" after a registered identifier
C3_Witness ==
  /\ pc = "done"
  /\ pending.op = "ScopesForServices"
  /\ pending.arg = <<ServiceGmail, <<110, 111, 112, 101>>>>
  /\ ~ret.err.nil

\* C4: ScopesForServices and ScopesForManage return an unknown-service
\* error exactly when some identifier of the sequence, at whatever
\* position, is not a key of the registry; with the error they return the
\* nil slice, never part of the union.
C4_ErrorIffUnknownAndNoPartialResult ==
  (pending.op \in {"ScopesForServices", "ScopesForManage"} /\ Returned) =>
    /\ ~ret.err.nil <=> (\E i \in 1..Len(pending.arg) : pending.arg[i] \notin Registered)
    /\ ~ret.err.nil => (ret.err.unknown /\ ret.val = NilSlice)
    /\ ret.err.nil => ret.val.kind = "fresh"

\* the unknown identifier comes after a registered one whose scopes were already collected
C4_Witness ==
  /\ pc = "done"
  /\ pending.op = "ScopesForManage"
  /\ pending.arg = <<ServiceContacts, <<110, 111, 112, 101>>>>
  /\ ~ret.err.nil
  /\ ret.val = NilSlice

\* C5: ParseService succeeds exactly on the inputs that are a registered
\* identifier up to letter case and surrounding white space, and returns
\* that identifier; in particular it returns every identifier of
\* AllServices unchanged.
C5_ParseAcceptsExactlyTheVariants ==
  (pending.op = "ParseService" /\ Returned) =>
    /\ ret.err.nil <=> (\E s \in Range(InitServiceOrder) : IsVariantOf(pending.arg, s))
    /\ ret.err.nil => /\ ret.val \in Range(InitServiceOrder)
                      /\ IsVariantOf(pending.arg, ret.val)
    /\ pending.arg \in Range(InitServiceOrder) => (ret.err.nil /\ ret.val = pending.arg)

\* " GMAIL<tab>" parses to gmail
C5_Witness ==
  /\ pc = "done"
  /\ pending.op = "ParseService"
  \* space, GMAIL, tab
  /\ pending.arg = <<32, 71, 77, 65, 73, 76, 9>>
  /\ ret.err.nil
  /\ ret.val = ServiceGmail

\* C6 as stated: when ParseService fails the message holds the input as it
\* was given and the valid identifiers joined by "|" in presentation order.
C6_MessageHoldsTheRawInput ==
  (pending.op = "ParseService" /\ Returned /\ ~ret.err.nil) =>
    /\ ret.err.unknown
    /\ Contains(ret.err.msg, pending.arg)
    /\ Contains(ret.err.msg, ValidList)

\* C6 as the code has it: the message is "unknown service", the input as a
\* double-quoted Go literal (neither trimmed nor lower-cased; a tab is
\* written backslash-t and a double quote backslash-quote), and "(expected ...)" around the valid identifiers
\* joined by "|" in presentation order.
C6_MessageHoldsTheQuotedInput ==
  (pending.op = "ParseService" /\ Returned /\ ~ret.err.nil) =>
    /\ ret.err.unknown
    \* unknown service "<input>" (expected <list>)
    /\ ret.err.msg = <<117, 110, 107, 110, 111, 119, 110, 32, 115, 101, 114, 118, 105, 99, 101, 32, 34>> \o GoEscaped(pending.arg)
                       \o <<34, 32, 40, 101, 120, 112, 101, 99, 116, 101, 100, 32>> \o ValidList \o <<41>>
    /\ ValidList = Join(InitServiceOrder, <<124>>)

\* "<tab>NOPE " is rejected
C6_Witness ==
  /\ pc = "done"
  /\ pending.op = "ParseService"
  \* tab, NOPE, space
  /\ pending.arg = <<9, 78, 79, 80, 69, 32>>
  /\ ~ret.err.nil

NoRepeat(seq) == \A i \in 1..Len(seq) : \A j \in 1..Len(seq) : seq[i] = seq[j] => i = j

\* C7: serviceOrder holds no identifier twice, every identifier in it has a
\* record and every key of the map is in it, so it is as long as the map
\* has keys; AllServices returns it and ServicesInfo returns one view for
\* each of its identifiers, in its order.
C7_RegistryComplete ==
  /\ NoRepeat(serviceOrder)
  /\ \A i \in 1..Len(serviceOrder) : serviceOrder[i] \in DOMAIN serviceInfoByService
  /\ \A svc \in DOMAIN serviceInfoByService : svc \in Range(serviceOrder)
  /\ Len(serviceOrder) = Cardinality(DOMAIN serviceInfoByService)
  /\ (pending.op = "AllServices" /\ Returned) => ret.val.elems = serviceOrder
  /\ (pending.op = "ServicesInfo" /\ Returned) =>
       /\ Len(ret.val.elems) = Len(serviceOrder)
       /\ \A i \in 1..Len(serviceOrder) :
            /\ ret.val.elems[i].Service = serviceOrder[i]
            /\ ret.val.elems[i].User = serviceInfoByService[serviceOrder[i]].user
            /\ ret.val.elems[i].Scopes.elems = serviceInfoByService[serviceOrder[i]].scopes
            /\ ret.val.elems[i].APIs.elems = serviceInfoByService[serviceOrder[i]].apis
            /\ ret.val.elems[i].Note = serviceInfoByService[serviceOrder[i]].note

C7_Witness ==
  /\ pc = "done"
  /\ pending.op = "ServicesInfo"
  /\ Len(ret.val.elems) = 10
  /\ ret.val.elems[10].Service = ServiceKeep

\* the position of an identifier in the presentation order
Position(svc) == CHOOSE i \in 1..Len(InitServiceOrder) : InitServiceOrder[i] = svc

\* C8: UserServices returns, without repetition and in the order of
\* AllServices, exactly the identifiers whose record is for individual
\* accounts; keep is not among them, so they are a strict subset; and
\* UserServiceCSV is those identifiers joined by ",".
C8_UserServicesFiltered ==
  /\ (pending.op = "UserServices" /\ Returned) =>
       /\ NoRepeat(ret.val.elems)
       /\ Range(ret.val.elems) = {svc \in Registered : InitServiceInfoByService[svc].user}
       /\ \A i \in 1..Len(ret.val.elems) : \A j \in 1..Len(ret.val.elems) :
            i < j => Position(ret.val.elems[i]) < Position(ret.val.elems[j])
       /\ Range(ret.val.elems) \subseteq Range(InitServiceOrder)
       /\ Range(ret.val.elems) # Range(InitServiceOrder)
       /\ ServiceKeep \notin Range(ret.val.elems)
  /\ (pending.op = "UserServiceCSV" /\ Returned) =>
       \* "gmail,calendar,drive,docs,contacts,tasks,sheets,people"
       ret.val = <<103, 109, 97, 105, 108, 44, 99, 97, 108, 101, 110, 100, 97, 114, 44, 100, 114, 105, 118, 101, 44, 100, 111, 99, 115, 44, 99, 111, 110, 116, 97, 99, 116, 115, 44, 116, 97, 115, 107, 115, 44, 115, 104, 101, 101, 116, 115, 44, 112, 101, 111, 112, 108, 101>>

C8_Witness ==
  /\ pc = "done"
  /\ pending.op = "UserServices"
  /\ Len(ret.val.elems) = 8
  /\ ret.val.elems[7] = ServiceSheets
  /\ ret.val.elems[8] = ServicePeople

\* C10: ServicesMarkdown of no views is the empty string; of n > 0 views it
\* is n + 2 lines, each ended by a line feed: the header, the separator,
\* and for the i-th view one line that starts with its service and its
\* yes/no flag and ends with its note, whatever the order of the views
\* and however often a view is repeated.
C10_MarkdownOneRowPerView ==
  (pending.op = "ServicesMarkdown" /\ Returned) =>
    LET infos == pending.arg
        lines == Lines(ret.val)
    IN  /\ Len(infos) = 0 => ret.val = <<>>
        /\ Len(infos) > 0 =>
             /\ ret.val[Len(ret.val)] = 10
             /\ Len(lines) = Len(infos) + 2
             \* "| Service | User | APIs | Scopes | Notes |"
             /\ lines[1] = <<124, 32, 83, 101, 114, 118, 105, 99, 101, 32, 124, 32, 85, 115, 101, 114, 32, 124, 32, 65, 80, 73, 115, 32, 124, 32, 83, 99, 111, 112, 101, 115, 32, 124, 32, 78, 111, 116, 101, 115, 32, 124>>
             \* "| --- | --- | --- | --- | --- |"
             /\ lines[2] = <<124, 32, 45, 45, 45, 32, 124, 32, 45, 45, 45, 32, 124, 32, 45, 45, 45, 32, 124, 32, 45, 45, 45, 32, 124, 32, 45, 45, 45, 32, 124>>
             \* "| <service> | <yes or no> | " ... " | <note> |", each
             \* scope between backquotes
             /\ \A i \in 1..Len(infos) :
                  /\ HasPrefix(lines[i + 2],
                               <<124, 32>> \o infos[i].Service \o <<32, 124, 32>>
                               \o (IF infos[i].User THEN <<121, 101, 115>> ELSE <<110, 111>>) \o <<32, 124, 32>>)
                  /\ HasSuffix(lines[i + 2], <<32, 124, 32>> \o infos[i].Note \o <<32, 124>>)
                  /\ \A sc \in Range(infos[i].Scopes.elems) :
                       Contains(lines[i + 2], <<96>> \o sc \o <<96>>)
                  /\ \A api \in Range(infos[i].APIs.elems) : Contains(lines[i + 2], api)

\* keep before gmail: the rows are not put back in presentation order
C10_Witness ==
  /\ pc = "done"
  /\ pending.op = "ServicesMarkdown"
  /\ Len(pending.arg) = 2
  /\ pending.arg[1].Service = ServiceKeep
  /\ pending.arg[2].Service = ServiceGmail
  /\ Len(Lines(ret.val)) = 4

-----------------------------------------------------------------------------
(* Property of the concurrent callers (Spec).                              *)

\* a view with its slices read out
ViewContents(reg, v) ==
  [ Service |-> v.Service, User |-> v.User, Scopes |-> Elems(reg, v.Scopes),
    APIs |-> Elems(reg, v.APIs), Note |-> v.Note ]

\* what a caller can read in the result it holds
Contents(reg, h) ==
  IF h.op = "ServicesMarkdown" THEN h.val
  ELSE IF h.op = "ServicesInfo"
  THEN [i \in 1..Len(Elems(reg, h.val)) |-> ViewContents(reg, Elems(reg, h.val)[i])]
  ELSE [nil |-> h.val.kind = "nil", elems |-> Elems(reg, h.val), err |-> h.err]

\* the same call made on the registry as it was built
OnInitialRegistry(h) ==
  LET reg == InitialRegistry
      wrap(r) == [op |-> h.op, val |-> r.val, err |-> r.err]
      plain(v) == [op |-> h.op, val |-> v, err |-> NilError]
  IN  Contents(reg,
        CASE h.op = "AllServices" -> plain(AllServices(reg))
          [] h.op = "UserServices" -> plain(UserServices(reg))
          [] h.op = "Scopes" -> wrap(Scopes(reg, h.arg))
          [] h.op = "ScopesForServices" -> wrap(ScopesForServices(reg, h.arg, FALSE))
          [] h.op = "ScopesForManage" -> wrap(ScopesForManage(reg, h.arg, FALSE, FALSE))
          [] h.op = "ServicesInfo" -> plain(ServicesInfo(reg))
          [] h.op = "ServicesMarkdown" -> plain(ServicesMarkdown(reg, h.arg)))

\* C9: whatever the callers call and overwrite, and however their steps
\* interleave, serviceOrder and every record of the map stay as they were
\* built, and a result no caller has written to is the result of the same
\* call on the registry as it was built.
C9_RegistryNeverModified ==
  /\ serviceOrder = InitServiceOrder
  /\ serviceInfoByService = InitServiceInfoByService
  /\ \A c \in Callers :
       (held[c].op # "none" /\ held[c].dirty = 0) =>
         Contents(Registry, held[c]) = OnInitialRegistry(held[c])

\* caller 1 has overwritten the first scope of the docs view it was
\* returned; caller 2 holds the scopes of docs, untouched
C9_Witness ==
  /\ held[1].op = "ServicesInfo"
  /\ held[1].dirty = 1
  /\ held[1].val.elems[4].Service = ServiceDocs
  /\ held[1].val.elems[4].Scopes.elems[1] = Junk
  /\ held[2].op = "Scopes"
  /\ held[2].arg = ServiceDocs
  /\ held[2].dirty = 0
  /\ held[2].val.elems[1] = InitServiceInfoByService[ServiceDocs].scopes[1]

====
